---------------------------- MODULE Spec2Model ----------------------------
(***************************************************************************)
(* A model of scripts/bedrock_utils.py: the prompt classifier guard        *)
(* (valid_prompt), the knowledge-base query (query_knowledge_base), the    *)
(* generation call (generate_response) and the two reply normalizers       *)
(* (_extract_text_from_bedrock_response, _parse_bedrock_response).         *)
(*                                                                         *)
(* Text is a sequence of one-character strings, so that strip(), lower(),  *)
(* substring tests, the regular expression \b([A-Ea-e])\b, json.loads and  *)
(* json.dumps are computed character by character.  A Python value is a    *)
(* pair <<kind, payload>>, x[1] its kind and x[2] its payload:             *)
(*     "str"  the characters              "int"  the decimal literal       *)
(*     "bool" TRUE / FALSE                "null" << >>                     *)
(*     "float" the literal repr() gives, such as 0.73                      *)
(*     "list" the items, in order                                          *)
(*     "dict" the <<key, value>> pairs, in insertion order                 *)
(* The alphabet of the model is printable ASCII plus \t \n \r \f; JSON     *)
(* texts of the model use integers only (no fractions, exponents, NaN)     *)
(* and the escapes \" \\ \/ \n \t \r \f (no \b, no \uXXXX).                *)
(***************************************************************************)
EXTENDS Integers, Sequences, FiniteSets, TLC

---------------------------------------------------------------------------
\* Characters and str methods

UpperSeq ==
    <<"A", "B", "C", "D", "E", "F", "G", "H", "I", "J", "K", "L", "M",
      "N", "O", "P", "Q", "R", "S", "T", "U", "V", "W", "X", "Y", "Z">>

LowerSeq ==
    <<"a", "b", "c", "d", "e", "f", "g", "h", "i", "j", "k", "l", "m",
      "n", "o", "p", "q", "r", "s", "t", "u", "v", "w", "x", "y", "z">>

Range(s) == {s[i] : i \in 1..Len(s)}

Digits == {"0", "1", "2", "3", "4", "5", "6", "7", "8", "9"}

\* \w of the re module, within the alphabet
WordChars == Range(UpperSeq) \cup Range(LowerSeq) \cup Digits \cup {"_"}

\* the characters str.strip() removes, within the alphabet
PyWhitespace == {" ", "\t", "\n", "\r", "\f"}

\* the characters json.loads skips between tokens
JsonWhitespace == {" ", "\t", "\n", "\r"}

\* the characters json.loads rejects inside a string literal (strict mode)
ControlChars == {"\t", "\n", "\r", "\f"}

SetMin(S) == CHOOSE m \in S : \A n \in S : m <= n

SetMax(S) == CHOOSE m \in S : \A n \in S : n <= m

lower_char(c) ==
    IF c \in Range(UpperSeq)
    THEN LowerSeq[CHOOSE i \in 1..Len(UpperSeq) : UpperSeq[i] = c]
    ELSE c

upper_char(c) ==
    IF c \in Range(LowerSeq)
    THEN UpperSeq[CHOOSE i \in 1..Len(LowerSeq) : LowerSeq[i] = c]
    ELSE c

\* str.lower()
lower(s) == [i \in 1..Len(s) |-> lower_char(s[i])]

\* str.strip()
strip(s) ==
    LET keep == {i \in 1..Len(s) : s[i] \notin PyWhitespace}
    IN  IF keep = {} THEN << >> ELSE SubSeq(s, SetMin(keep), SetMax(keep))

\* needle in hay
Contains(hay, needle) ==
    \E i \in 0..(Len(hay) - Len(needle)) :
        SubSeq(hay, i + 1, i + Len(needle)) = needle

\* s[:n]
Slice(s, n) == IF Len(s) <= n THEN s ELSE SubSeq(s, 1, n)

StartsAt(s, i, w) ==
    /\ i + Len(w) - 1 <= Len(s)
    /\ SubSeq(s, i, i + Len(w) - 1) = w

RECURSIVE Join(_, _)
\* sep.join(parts), joined half by half
Join(parts, sep) ==
    IF Len(parts) = 0 THEN << >>
    ELSE IF Len(parts) = 1 THEN parts[1]
    ELSE LET h == Len(parts) \div 2
         IN  Join(SubSeq(parts, 1, h), sep) \o sep
             \o Join(SubSeq(parts, h + 1, Len(parts)), sep)

---------------------------------------------------------------------------
\* Python values

PyStr(s) == <<"str", s>>

PyInt(literal) == <<"int", literal>>

\* a float, by the literal repr() and json.dumps write for it
PyFloat(literal) == <<"float", literal>>

PyBool(b) == <<"bool", b>>

PyNone == <<"null", << >>>>

PyList(items) == <<"list", items>>

PyDict(pairs) == <<"dict", pairs>>

IsStr(x) == x[1] = "str"

IsList(x) == x[1] = "list"

IsDict(x) == x[1] = "dict"

\* bool(x)
Truthy(x) ==
    CASE x[1] = "str" -> Len(x[2]) > 0
      [] x[1] = "int" -> x[2] # <<"0">>
      [] x[1] = "float" -> x[2] \notin {<<"0", ".", "0">>, <<"-", "0", ".", "0">>}
      [] x[1] = "bool" -> x[2]
      [] x[1] = "null" -> FALSE
      [] x[1] = "list" -> Len(x[2]) > 0
      [] x[1] = "dict" -> Len(x[2]) > 0

\* key in d
HasKey(d, key) == \E i \in 1..Len(d[2]) : d[2][i][1] = key

\* d[key], for a key that is present
Item(d, key) == d[2][CHOOSE i \in 1..Len(d[2]) : d[2][i][1] = key][2]

\* d.get(key, default)
GetOr(d, key, default) == IF HasKey(d, key) THEN Item(d, key) ELSE default

\* d.get(key)
Get(d, key) == GetOr(d, key, PyNone)

\* a or b
Or(a, b) == IF Truthy(a) THEN a ELSE b

\* the pairs of a dict after d[key] = val: a repeated key keeps its place
DictSet(pairs, key, val) ==
    IF \E i \in 1..Len(pairs) : pairs[i][1] = key
    THEN [i \in 1..Len(pairs) |->
             IF pairs[i][1] = key THEN <<key, val>> ELSE pairs[i]]
    ELSE Append(pairs, <<key, val>>)

\* type(x).__name__
TypeName(x) ==
    CASE x[1] = "str" -> <<"s", "t", "r">>
      [] x[1] = "int" -> <<"i", "n", "t">>
      [] x[1] = "float" -> <<"f", "l", "o", "a", "t">>
      [] x[1] = "bool" -> <<"b", "o", "o", "l">>
      [] x[1] = "null" -> <<"N", "o", "n", "e", "T", "y", "p", "e">>
      [] x[1] = "list" -> <<"l", "i", "s", "t">>
      [] x[1] = "dict" -> <<"d", "i", "c", "t">>

---------------------------------------------------------------------------
\* json.loads

ParseFail == [ok |-> FALSE, val |-> PyNone, next |-> 0]

ParseOk(val, next) == [ok |-> TRUE, val |-> val, next |-> next]

\* the first position from i on that holds no JSON whitespace (Len(s) + 1 at the end)
SkipWs(s, i) ==
    CHOOSE j \in i..(Len(s) + 1) :
        /\ \A n \in i..(j - 1) : s[n] \in JsonWhitespace
        /\ (j = Len(s) + 1 \/ s[j] \notin JsonWhitespace)

\* the character an escape \c of a string literal stands for
Unescape(c) ==
    CASE c = "n" -> "\n"
      [] c = "t" -> "\t"
      [] c = "r" -> "\r"
      [] c = "f" -> "\f"
      [] OTHER -> c

RECURSIVE ParseString(_, _, _)
\* a string literal whose opening quote is at i - 1; val is its characters
ParseString(s, i, acc) ==
    IF i > Len(s) THEN ParseFail
    ELSE IF s[i] = "\"" THEN ParseOk(acc, i + 1)
    ELSE IF s[i] = "\\"
    THEN IF i + 1 <= Len(s) /\ s[i + 1] \in {"\"", "\\", "/", "n", "t", "r", "f"}
         THEN ParseString(s, i + 2, Append(acc, Unescape(s[i + 1])))
         ELSE ParseFail
    ELSE IF s[i] \in ControlChars THEN ParseFail
    ELSE ParseString(s, i + 1, Append(acc, s[i]))

\* an integer literal -?(0|[1-9][0-9]*) at i
ParseNumber(s, i) ==
    LET d == IF s[i] = "-" THEN i + 1 ELSE i
    IN  IF d > Len(s) \/ s[d] \notin Digits THEN ParseFail
        ELSE LET e == IF s[d] = "0" THEN d + 1
                      ELSE CHOOSE j \in (d + 1)..(Len(s) + 1) :
                               /\ \A n \in d..(j - 1) : s[n] \in Digits
                               /\ (j = Len(s) + 1 \/ s[j] \notin Digits)
                 lit == SubSeq(s, i, e - 1)
             IN  ParseOk(PyInt(IF lit = <<"-", "0">> THEN <<"0">> ELSE lit), e)

RECURSIVE ParseValue(_, _), ParseElements(_, _, _), ParseMembers(_, _, _)
\* the JSON value that starts at i
ParseValue(s, i) ==
    IF i > Len(s) THEN ParseFail
    ELSE IF s[i] = "\""
    THEN LET r == ParseString(s, i + 1, << >>)
         IN  IF r.ok THEN ParseOk(PyStr(r.val), r.next) ELSE ParseFail
    ELSE IF s[i] = "{"
    THEN LET j == SkipWs(s, i + 1)
         IN  IF j <= Len(s) /\ s[j] = "}" THEN ParseOk(PyDict(<< >>), j + 1)
             ELSE ParseMembers(s, j, << >>)
    ELSE IF s[i] = "["
    THEN LET j == SkipWs(s, i + 1)
         IN  IF j <= Len(s) /\ s[j] = "]" THEN ParseOk(PyList(<< >>), j + 1)
             ELSE ParseElements(s, j, << >>)
    ELSE IF s[i] \in Digits \cup {"-"} THEN ParseNumber(s, i)
    ELSE IF StartsAt(s, i, <<"t", "r", "u", "e">>) THEN ParseOk(PyBool(TRUE), i + 4)
    ELSE IF StartsAt(s, i, <<"f", "a", "l", "s", "e">>) THEN ParseOk(PyBool(FALSE), i + 5)
    ELSE IF StartsAt(s, i, <<"n", "u", "l", "l">>) THEN ParseOk(PyNone, i + 4)
    ELSE ParseFail

\* the rest of an array whose next item starts at i
ParseElements(s, i, items) ==
    LET v == ParseValue(s, i)
    IN  IF ~v.ok THEN ParseFail
        ELSE LET e == SkipWs(s, v.next)
                 all == Append(items, v.val)
             IN  IF e > Len(s) THEN ParseFail
                 ELSE IF s[e] = "]" THEN ParseOk(PyList(all), e + 1)
                 ELSE IF s[e] = "," THEN ParseElements(s, SkipWs(s, e + 1), all)
                 ELSE ParseFail

\* the rest of an object whose next key starts at i
ParseMembers(s, i, pairs) ==
    IF i > Len(s) \/ s[i] # "\"" THEN ParseFail
    ELSE LET key == ParseString(s, i + 1, << >>)
         IN  IF ~key.ok THEN ParseFail
             ELSE LET c == SkipWs(s, key.next)
                  IN  IF c > Len(s) \/ s[c] # ":" THEN ParseFail
                      ELSE LET v == ParseValue(s, SkipWs(s, c + 1))
                           IN  IF ~v.ok THEN ParseFail
                               ELSE LET e == SkipWs(s, v.next)
                                        all == DictSet(pairs, key.val, v.val)
                                    IN  IF e > Len(s) THEN ParseFail
                                        ELSE IF s[e] = "}"
                                        THEN ParseOk(PyDict(all), e + 1)
                                        ELSE IF s[e] = ","
                                        THEN ParseMembers(s, SkipWs(s, e + 1), all)
                                        ELSE ParseFail

\* json.loads(s): ok is FALSE where it raises JSONDecodeError
json_loads(s) ==
    LET r == ParseValue(s, SkipWs(s, 1))
    IN  IF r.ok /\ SkipWs(s, r.next) = Len(s) + 1
        THEN [ok |-> TRUE, val |-> r.val]
        ELSE [ok |-> FALSE, val |-> PyNone]

---------------------------------------------------------------------------
\* json.dumps, str() and repr()

Spaces(n) == [i \in 1..n |-> " "]

\* a character of a string as json.dumps writes it
JsonEscape(c) ==
    CASE c = "\"" -> <<"\\", "\"">>
      [] c = "\\" -> <<"\\", "\\">>
      [] c = "\n" -> <<"\\", "n">>
      [] c = "\t" -> <<"\\", "t">>
      [] c = "\r" -> <<"\\", "r">>
      [] c = "\f" -> <<"\\", "f">>
      [] OTHER -> <<c>>

JsonQuote(s) ==
    <<"\"">> \o Join([i \in 1..Len(s) |-> JsonEscape(s[i])], << >>) \o <<"\"">>

RECURSIVE json_dumps(_, _, _)
\* json.dumps(x, indent=indent) at nesting depth level; indent = 0 stands for None
json_dumps(x, indent, level) ==
    LET nl(n) == IF indent = 0 THEN << >> ELSE <<"\n">> \o Spaces(indent * n)
        sep == IF indent = 0 THEN <<",", " ">> ELSE <<",">> \o nl(level + 1)
    IN  CASE x[1] = "str" -> JsonQuote(x[2])
          [] x[1] = "int" -> x[2]
          [] x[1] = "float" -> x[2]
          [] x[1] = "bool" -> IF x[2] THEN <<"t", "r", "u", "e">>
                             ELSE <<"f", "a", "l", "s", "e">>
          [] x[1] = "null" -> <<"n", "u", "l", "l">>
          [] x[1] = "list" ->
                IF Len(x[2]) = 0 THEN <<"[", "]">>
                ELSE <<"[">> \o nl(level + 1)
                     \o Join([i \in 1..Len(x[2]) |->
                                 json_dumps(x[2][i], indent, level + 1)], sep)
                     \o nl(level) \o <<"]">>
          [] x[1] = "dict" ->
                IF Len(x[2]) = 0 THEN <<"{", "}">>
                ELSE <<"{">> \o nl(level + 1)
                     \o Join([i \in 1..Len(x[2]) |->
                                 JsonQuote(x[2][i][1]) \o <<":", " ">>
                                 \o json_dumps(x[2][i][2], indent, level + 1)], sep)
                     \o nl(level) \o <<"}">>

\* a character of a string as repr() writes it inside the quote q
ReprEscape(c, q) ==
    CASE c = q -> <<"\\", q>>
      [] c = "\\" -> <<"\\", "\\">>
      [] c = "\n" -> <<"\\", "n">>
      [] c = "\t" -> <<"\\", "t">>
      [] c = "\r" -> <<"\\", "r">>
      [] c = "\f" -> <<"\\", "x", "0", "c">>
      [] OTHER -> <<c>>

\* repr(s) of a str: double quotes only when s holds ' and no "
ReprStr(s) ==
    LET q == IF "'" \in Range(s) /\ "\"" \notin Range(s) THEN "\"" ELSE "'"
    IN  <<q>> \o Join([i \in 1..Len(s) |-> ReprEscape(s[i], q)], << >>) \o <<q>>

RECURSIVE repr(_)
repr(x) ==
    CASE x[1] = "str" -> ReprStr(x[2])
      [] x[1] = "int" -> x[2]
      [] x[1] = "float" -> x[2]
      [] x[1] = "bool" -> IF x[2] THEN <<"T", "r", "u", "e">>
                         ELSE <<"F", "a", "l", "s", "e">>
      [] x[1] = "null" -> <<"N", "o", "n", "e">>
      [] x[1] = "list" ->
            <<"[">> \o Join([i \in 1..Len(x[2]) |-> repr(x[2][i])], <<",", " ">>)
            \o <<"]">>
      [] x[1] = "dict" ->
            <<"{">>
            \o Join([i \in 1..Len(x[2]) |->
                        ReprStr(x[2][i][1]) \o <<":", " ">> \o repr(x[2][i][2])],
                    <<",", " ">>)
            \o <<"}">>

\* str(x)
str(x) == IF x[1] = "str" THEN x[2] ELSE repr(x)

---------------------------------------------------------------------------
\* Outcomes of a function call, exceptions, and the keys the code probes

\* the function returned val
Return(val) == [st |-> "return", val |-> val]

\* the function raised the exception exc
Raise(exc) == [st |-> "raise", val |-> exc]

\* a block of a function fell through to the statement after it
Pass == [st |-> "pass", val |-> PyNone]

\* a, unless block a fell through; then b
Then(a, b) == IF a.st = "pass" THEN b ELSE a

\* an exception of class type whose str() is msg
Exc(type, msg) == <<"exc", <<type, msg>>>>

kMessage ==
    <<"m", "e", "s", "s", "a", "g", "e">>

kContent ==
    <<"c", "o", "n", "t", "e", "n", "t">>

kText ==
    <<"t", "e", "x", "t">>

kOutputText ==
    <<"o", "u", "t", "p", "u", "t", "T", "e", "x", "t">>

kChoices ==
    <<"c", "h", "o", "i", "c", "e", "s">>

kOutputs ==
    <<"o", "u", "t", "p", "u", "t", "s">>

kGeneratedText ==
    <<"g", "e", "n", "e", "r", "a", "t", "e", "d", "_", "t", "e", "x", "t">>

kOutput ==
    <<"o", "u", "t", "p", "u", "t">>

kType ==
    <<"t", "y", "p", "e">>

kGet ==
    <<"g", "e", "t">>

kStrip ==
    <<"s", "t", "r", "i", "p">>

NoAttrMid ==
    <<"'", " ", "o", "b", "j", "e", "c", "t", " ", "h", "a", "s", " ", "n", "o", " ", "a", "t",
      "t", "r", "i", "b", "u", "t", "e", " ", "'">>

\* what x.attr raises when type(x) has no attribute attr
AttributeError(x, attr) ==
    Exc("AttributeError", <<"'">> \o TypeName(x) \o NoAttrMid \o attr \o <<"'">>)

\* x.strip(): only a str has the method
StripOf(x) ==
    IF IsStr(x) THEN Return(PyStr(strip(x[2]))) ELSE Raise(AttributeError(x, kStrip))

---------------------------------------------------------------------------
\* The bytes of a reply body

\* bytes that are the UTF-8 encoding of text
Bytes(text) == <<"bytes", text>>

\* str(b'\xff')
UndecodableRepr ==
    <<"b", "'", "\\", "x", "f", "f", "'">>

\* the bytes b'\xff', which are no UTF-8 text; v is their str()
UndecodableBytes == <<"badbytes", UndecodableRepr>>

UnicodeDecodeMsg ==
    <<"'", "u", "t", "f", "-", "8", "'", " ", "c", "o", "d", "e", "c", " ", "c", "a", "n", "'",
      "t", " ", "d", "e", "c", "o", "d", "e", " ", "b", "y", "t", "e", " ", "0", "x", "f", "f",
      " ", "i", "n", " ", "p", "o", "s", "i", "t", "i", "o", "n", " ", "0", ":", " ", "i", "n",
      "v", "a", "l", "i", "d", " ", "s", "t", "a", "r", "t", " ", "b", "y", "t", "e">>

IsBytes(x) == x[1] \in {"bytes", "badbytes"}

\* raw.decode("utf-8")
decode(raw) ==
    IF raw[1] = "bytes" THEN Return(PyStr(raw[2]))
    ELSE Raise(Exc("UnicodeDecodeError", UnicodeDecodeMsg))

\* str(raw) of a body that is bytes or a str
BodyStr(raw) == IF IsBytes(raw) THEN raw[2] ELSE str(raw)

---------------------------------------------------------------------------
\* _extract_text_from_bedrock_response

ExtractLimit == 20000

\* the text of the first content item
extract_first(first) ==
    IF IsDict(first) /\ HasKey(first, kText)
    THEN StripOf(Item(first, kText))
    ELSE Return(PyStr(strip(str(first))))

\* message.content[0].text
extract_message(data) ==
    LET msg == Get(data, kMessage)
    IN  IF IsDict(msg)
        THEN LET content == Or(Get(msg, kContent), PyList(<< >>))
             IN  IF IsList(content) /\ Truthy(content)
                 THEN extract_first(content[2][1])
                 ELSE Pass
        ELSE Pass

\* outputText
extract_outputText(data) ==
    IF HasKey(data, kOutputText) /\ IsStr(Item(data, kOutputText))
    THEN Return(PyStr(strip(Item(data, kOutputText)[2])))
    ELSE Pass

\* choices path
extract_choices(data) ==
    IF /\ HasKey(data, kChoices)
       /\ IsList(Item(data, kChoices))
       /\ Truthy(Item(data, kChoices))
    THEN LET choice == Item(data, kChoices)[2][1]
         IN  IF ~IsDict(choice) THEN Raise(AttributeError(choice, kGet))
             ELSE LET msg == GetOr(choice, kMessage, PyDict(<< >>))
                  IN  IF ~IsDict(msg) THEN Raise(AttributeError(msg, kGet))
                      ELSE LET content ==
                                   Or(Or(Get(msg, kContent), Get(choice, kContent)),
                                      PyList(<< >>))
                           IN  IF IsList(content) /\ Truthy(content)
                               THEN extract_first(content[2][1])
                               ELSE IF HasKey(choice, kText)
                               THEN StripOf(Item(choice, kText))
                               ELSE Pass
    ELSE Pass

\* raw_text: the decoded body, or str() of the body where decoding raises
extract_raw_text(raw_response_body) ==
    LET decoded ==
            IF IsBytes(raw_response_body) THEN decode(raw_response_body)
            ELSE Return(PyStr(str(raw_response_body)))
    IN  IF decoded.st = "raise" THEN BodyStr(raw_response_body)
        ELSE decoded.val[2]

\* the common shapes of the parsed data, then the pretty json string
extract_data(data) ==
    Then(IF IsDict(data)
         THEN Then(extract_message(data),
                   Then(extract_outputText(data), extract_choices(data)))
         ELSE Pass,
         Return(PyStr(Slice(json_dumps(data, 2, 0), ExtractLimit))))

\* the function from json.loads(raw_text) on, without the strip() of a text that is
\* no JSON
extract_loaded_unstripped(raw_text, loaded) ==
    IF ~loaded.ok THEN Return(PyStr(raw_text))
    ELSE extract_data(loaded.val)

\* the function from json.loads(raw_text) on; loaded is what json.loads gave
extract_loaded(raw_text, loaded) ==
    IF ~loaded.ok THEN Return(PyStr(strip(raw_text)))
    ELSE extract_data(loaded.val)

\* the function from raw_text on
extract_text(raw_text) == extract_loaded(raw_text, json_loads(raw_text))

_extract_text_from_bedrock_response(raw_response_body) ==
    extract_text(extract_raw_text(raw_response_body))

---------------------------------------------------------------------------
\* _parse_bedrock_response

\* a choices probe that finds nothing
parse_choices_skipped(parsed) == Pass

\* { "choices": [ { "message": { "content": "..." } } ] }
parse_choices(parsed) ==
    IF /\ HasKey(parsed, kChoices)
       /\ IsList(Item(parsed, kChoices))
       /\ Truthy(Item(parsed, kChoices))
    THEN LET first == Item(parsed, kChoices)[2][1]
         IN  IF ~IsDict(first) THEN Raise(AttributeError(first, kGet))
             ELSE LET msg == Or(Or(Get(first, kMessage), Get(first, kContent)),
                                Get(first, kText))
                  IN  IF IsDict(msg)
                      THEN Return(Or(Or(Get(msg, kContent), Get(msg, kText)),
                                     PyStr(str(msg))))
                      ELSE IF IsStr(msg) THEN Return(msg)
                      ELSE Pass
    ELSE Pass

RECURSIVE parse_scan(_, _)
\* the for loop over the content items, from item i on
parse_scan(content, i) ==
    IF i > Len(content[2])
    THEN Return(PyStr(Join([n \in 1..Len(content[2]) |-> str(content[2][n])], <<" ">>)))
    ELSE LET c == content[2][i]
         IN  IF IsDict(c) /\ HasKey(c, kText) THEN Return(Item(c, kText))
             ELSE IF IsDict(c) /\ HasKey(c, kType) /\ Truthy(Get(c, kText))
             THEN Return(Get(c, kText))
             ELSE parse_scan(content, i + 1)

\* { "outputs": [ { "content": [ { "type":"output_text", "text":"..." } ] } ] }
parse_outputs(parsed) ==
    IF /\ HasKey(parsed, kOutputs)
       /\ IsList(Item(parsed, kOutputs))
       /\ Truthy(Item(parsed, kOutputs))
    THEN LET out0 == Item(parsed, kOutputs)[2][1]
         IN  IF ~IsDict(out0) THEN Raise(AttributeError(out0, kGet))
             ELSE LET content == Get(out0, kContent)
                  IN  IF IsList(content) /\ Truthy(content)
                      THEN parse_scan(content, 1)
                      ELSE Pass
    ELSE Pass

\* { "generated_text": "..." } or { "output": "..." } or { "text": "..." }
parse_keys(parsed) ==
    IF HasKey(parsed, kGeneratedText) THEN Return(Item(parsed, kGeneratedText))
    ELSE IF HasKey(parsed, kOutput) THEN Return(Item(parsed, kOutput))
    ELSE IF HasKey(parsed, kText) THEN Return(Item(parsed, kText))
    ELSE Pass

\* the common formats of the parsed data, then the JSON text
parse_data(parsed) ==
    Then(IF IsDict(parsed)
         THEN Then(parse_choices(parsed),
                   Then(parse_outputs(parsed), parse_keys(parsed)))
         ELSE Pass,
         Return(PyStr(json_dumps(parsed, 0, 0))))

\* the function from json.loads(resp_text) on; loaded is what json.loads gave
parse_loaded(resp_text, loaded) ==
    IF ~loaded.ok THEN Return(PyStr(resp_text))
    ELSE parse_data(loaded.val)

_parse_bedrock_response(resp_text) == parse_loaded(resp_text, json_loads(resp_text))

---------------------------------------------------------------------------
\* The external calls.  The outcome of bedrock_runtime.invoke_model or of
\* bedrock_agent_client.retrieve is Raise(exc), or Return(response) with the
\* response a dict; response["body"].read() is the value under "body".

kBody ==
    <<"b", "o", "d", "y">>

\* what d[key] raises for a missing key: str(KeyError(key)) is repr(key)
KeyError(key) == Exc("KeyError", ReprStr(key))

\* response["body"].read()
read_body(response) ==
    IF HasKey(response, kBody) THEN Return(Item(response, kBody))
    ELSE Raise(KeyError(kBody))

FILE_URL ==
    <<"/", "m", "n", "t", "/", "d", "a", "t", "a", "/", "m", "a", "c", "h", "i", "n", "e", "_",
      "f", "i", "l", "e", "s", ".", "p", "d", "f">>

MODEL_ID_CLASSIFIER ==
    <<"a", "m", "a", "z", "o", "n", ".", "n", "o", "v", "a", "-", "p", "r", "o", "-", "v", "1",
      ":", "0">>

MODEL_ID ==
    <<"a", "m", "a", "z", "o", "n", ".", "n", "o", "v", "a", "-", "p", "r", "o", "-", "v", "1",
      ":", "0">>

ClassifierMaxTokens == 10

\* an invoke_model request: the model, and of its JSON body (a "messages" list of a
\* system and a user message, the user message with one url attachment, and an
\* inferenceConfig) the parts that vary
InvokeRequest(modelId, user_text, maxTokens) ==
    [api |-> "invoke_model", modelId |-> modelId, shape |-> "messages",
     user |-> user_text, attachment |-> FILE_URL, maxTokens |-> maxTokens]

---------------------------------------------------------------------------
\* valid_prompt

ReasonEmpty ==
    <<"E", "m", "p", "t", "y", " ", "p", "r", "o", "m", "p", "t", ".">>

ReasonCategoryE ==
    <<"O", "K", " ", "(", "C", "a", "t", "e", "g", "o", "r", "y", " ", "E", ")">>

ReasonClassifiedAs ==
    <<"C", "l", "a", "s", "s", "i", "f", "i", "e", "d", " ", "a", "s", " ", "C", "a", "t", "e",
      "g", "o", "r", "y", " ">>

ReasonDetectedByText ==
    <<"O", "K", " ", "(", "C", "a", "t", "e", "g", "o", "r", "y", " ", "E", " ", "-", " ", "d",
      "e", "t", "e", "c", "t", "e", "d", " ", "b", "y", " ", "t", "e", "x", "t", ")">>

ReasonNonE ==
    <<"C", "l", "a", "s", "s", "i", "f", "i", "e", "d", " ", "(", "m", "o", "d", "e", "l", ")",
      " ", "a", "s", " ", "n", "o", "n", "-", "E", ":", " ">>

ReasonHeuristicOk ==
    <<"O", "K", " ", "(", "C", "a", "t", "e", "g", "o", "r", "y", " ", "E", " ", "-", " ", "h",
      "e", "u", "r", "i", "s", "t", "i", "c", " ", "f", "a", "l", "l", "b", "a", "c", "k", ")">>

ReasonHeuristicReject ==
    <<"N", "o", "t", " ", "C", "a", "t", "e", "g", "o", "r", "y", " ", "E", " ", "(", "h", "e",
      "u", "r", "i", "s", "t", "i", "c", " ", "f", "a", "l", "l", "b", "a", "c", "k", ")">>

PhraseCategoryE ==
    <<"c", "a", "t", "e", "g", "o", "r", "y", " ", "e">>

PhraseHeavyMachinery ==
    <<"h", "e", "a", "v", "y", " ", "m", "a", "c", "h", "i", "n", "e", "r", "y">>

fallback_keywords ==
    << <<"r", "a", "t", "e", "d", " ", "p", "o", "w", "e", "r">>,
       <<"r", "p", "m">>,
       <<"m", "o", "t", "o", "r">>,
       <<"e", "n", "g", "i", "n", "e">>,
       <<"g", "e", "a", "r", "b", "o", "x">>,
       <<"b", "e", "a", "r", "i", "n", "g">>,
       <<"h", "y", "d", "r", "a", "u", "l", "i", "c">>,
       <<"c", "o", "m", "p", "r", "e", "s", "s", "o", "r">>,
       <<"x", "r", "-", "2", "2", "0">>,
       <<"l", "i", "f", "t", " ", "c", "a", "p", "a", "c", "i", "t", "y">>,
       <<"t", "o", "r", "q", "u", "e">>,
       <<"s", "p", "e", "c", "i", "f", "i", "c", "a", "t", "i", "o", "n">>,
       <<"s", "p", "e", "c", "s">>,
       <<"a", "m", "p">>,
       <<"k", "W">> >>

ReasonLimit == 200

\* the (bool, str) pair valid_prompt returns
Verdict(admitted, reason) == <<"tuple", <<PyBool(admitted), PyStr(reason)>>>>

\* not user_input, without the strip() test
is_empty_unstripped(user_input) == user_input = << >>

\* not user_input or not user_input.strip()
is_empty_prompt(user_input) == user_input = << >> \/ strip(user_input) = << >>

\* the request valid_prompt sends for a question
classifier_request(question) ==
    InvokeRequest(MODEL_ID_CLASSIFIER, question, ClassifierMaxTokens)

\* the body of the try statement: the reply's body, read and normalized
classifier_try(outcome) ==
    IF outcome.st = "raise" THEN outcome
    ELSE LET raw_body == read_body(outcome.val)
         IN  IF raw_body.st = "raise" THEN raw_body
             ELSE _extract_text_from_bedrock_response(raw_body.val)

\* except Exception: classifier_text = None
classifier_except(body) == IF body.st = "raise" THEN Return(PyNone) ELSE body

\* the try statement without its except clause
classifier_uncaught(outcome) == classifier_try(outcome)

\* classifier_text after the try statement
classifier_call(outcome) == classifier_except(classifier_try(outcome))

\* re.search(r"\b([A-Ea-e])\b", text): where the first match starts, 0 for no match
search_letter(text) ==
    LET hits == {i \in 1..Len(text) :
                    /\ text[i] \in {"A", "B", "C", "D", "E", "a", "b", "c", "d", "e"}
                    /\ (i = 1 \/ text[i - 1] \notin WordChars)
                    /\ (i = Len(text) \/ text[i + 1] \notin WordChars)}
    IN  IF hits = {} THEN 0 ELSE SetMin(hits)

\* a heuristic that knows no keyword
heuristic_reject(question) == Verdict(FALSE, ReasonHeuristicReject)

\* the keyword heuristic over the stripped question
heuristic_fallback(question) ==
    IF \E n \in 1..Len(fallback_keywords) : Contains(lower(question), fallback_keywords[n])
    THEN Verdict(TRUE, ReasonHeuristicOk)
    ELSE Verdict(FALSE, ReasonHeuristicReject)

\* a verdict that ignores the classifier's text
decide_by_keywords(question, classifier_text) ==
    IF \E n \in 1..Len(fallback_keywords) : Contains(lower(question), fallback_keywords[n])
    THEN Verdict(TRUE, ReasonHeuristicOk)
    ELSE Verdict(FALSE, ReasonHeuristicReject)

\* the verdict, from the stripped question and the classifier's text (or None)
decide(question, classifier_text) ==
    IF Truthy(classifier_text)
    THEN LET text == classifier_text[2]
             m == search_letter(text)
         IN  IF m # 0
             THEN IF upper_char(text[m]) = "E"
                  THEN Verdict(TRUE, ReasonCategoryE)
                  ELSE Verdict(FALSE, ReasonClassifiedAs \o <<upper_char(text[m])>>)
             ELSE IF \/ Contains(lower(text), PhraseCategoryE)
                     \/ Contains(lower(text), PhraseHeavyMachinery)
             THEN Verdict(TRUE, ReasonDetectedByText)
             ELSE Verdict(FALSE, ReasonNonE \o Slice(strip(text), ReasonLimit))
    ELSE heuristic_fallback(question)

\* the statements after the try statement; an exception the try statement did not
\* catch has left the function
after_classifier(question, classified) ==
    IF classified.st = "raise" THEN classified
    ELSE Return(decide(question, classified.val))

\* what valid_prompt does once invoke_model has ended with outcome
valid_prompt(user_input, outcome) ==
    IF is_empty_prompt(user_input) THEN Return(Verdict(FALSE, ReasonEmpty))
    ELSE after_classifier(strip(user_input), classifier_call(outcome))

---------------------------------------------------------------------------
\* generate_response

GenerateLimit == 10000

DefaultMaxTokens == 300

ErrorPrefix ==
    <<"[", "E", "R", "R", "O", "R", "]", " ", "m", "o", "d", "e", "l", " ", "i", "n", "v", "o",
      "c", "a", "t", "i", "o", "n", " ", "f", "a", "i", "l", "e", "d", ":", " ">>

\* the request generate_response sends
generate_request(user_prompt, model_id, max_tokens) ==
    InvokeRequest(model_id, user_prompt, max_tokens)

\* the text of the first content item
generate_first(first) ==
    IF IsDict(first) /\ HasKey(first, kText)
    THEN StripOf(Item(first, kText))
    ELSE Return(PyStr(strip(str(first))))

\* 1) message.content[0].text
generate_message(data) ==
    LET msg == Get(data, kMessage)
    IN  IF IsDict(msg)
        THEN LET content_list == Or(Get(msg, kContent), PyList(<< >>))
             IN  IF IsList(content_list) /\ Len(content_list[2]) > 0
                 THEN generate_first(content_list[2][1])
                 ELSE Pass
        ELSE Pass

\* 2) outputText
generate_outputText(data) ==
    IF HasKey(data, kOutputText) /\ IsStr(Item(data, kOutputText))
    THEN Return(PyStr(strip(Item(data, kOutputText)[2])))
    ELSE Pass

\* 3) choices -> [ { message: { content: [...] } } ]
generate_choices(data) ==
    IF /\ HasKey(data, kChoices)
       /\ IsList(Item(data, kChoices))
       /\ Len(Item(data, kChoices)[2]) > 0
    THEN LET choice == Item(data, kChoices)[2][1]
         IN  IF ~IsDict(choice) THEN Raise(AttributeError(choice, kGet))
             ELSE LET msg == Or(Get(choice, kMessage), PyDict(<< >>))
                  IN  IF ~IsDict(msg) THEN Raise(AttributeError(msg, kGet))
                      ELSE LET content_list ==
                                   Or(Or(Get(msg, kContent), Get(choice, kContent)),
                                      PyList(<< >>))
                           IN  IF IsList(content_list) /\ Len(content_list[2]) > 0
                               THEN generate_first(content_list[2][1])
                               ELSE IF HasKey(choice, kText)
                               THEN StripOf(Item(choice, kText))
                               ELSE Pass
    ELSE Pass

\* the common shapes of the parsed data, then the pretty JSON string
generate_data(data) ==
    Then(IF IsDict(data)
         THEN Then(generate_message(data),
                   Then(generate_outputText(data), generate_choices(data)))
         ELSE Pass,
         Return(PyStr(Slice(json_dumps(data, 2, 0), GenerateLimit))))

\* the parsing from json.loads(raw_text) on; loaded is what json.loads gave
generate_loaded(raw_text, loaded) ==
    IF ~loaded.ok THEN Return(PyStr(raw_text))
    ELSE generate_data(loaded.val)

\* the parsing inlined in generate_response, from the decoded body on
generate_parse(raw_text) == generate_loaded(raw_text, json_loads(raw_text))

\* the body of the try statement
generate_try(outcome) ==
    IF outcome.st = "raise" THEN outcome
    ELSE LET raw == read_body(outcome.val)
         IN  IF raw.st = "raise" THEN raw
             ELSE LET raw_text == IF IsBytes(raw.val) THEN decode(raw.val)
                                  ELSE Return(PyStr(str(raw.val)))
                  IN  IF raw_text.st = "raise" THEN raw_text
                      ELSE generate_parse(raw_text.val[2])

\* except Exception as e: return the error text
generate_except(body) ==
    IF body.st = "raise"
    THEN Return(PyStr(ErrorPrefix \o body.val[2][2]))
    ELSE body

\* the try statement without its except clause
generate_uncaught(outcome) == generate_try(outcome)

\* what generate_response does once invoke_model has ended with outcome
generate_response(outcome) == generate_except(generate_try(outcome))

---------------------------------------------------------------------------
\* query_knowledge_base

KB_ID ==
    <<"4", "G", "D", "L", "Z", "V", "M", "O", "T", "V">>

Unknown ==
    <<"u", "n", "k", "n", "o", "w", "n">>

k_document == <<"d", "o", "c", "u", "m", "e", "n", "t">>

k_sourceDocument == <<"s", "o", "u", "r", "c", "e", "D", "o", "c", "u", "m", "e", "n", "t">>

k_source == <<"s", "o", "u", "r", "c", "e">>

k_title == <<"t", "i", "t", "l", "e">>

k_metadata == <<"m", "e", "t", "a", "d", "a", "t", "a">>

k_s3_uri == <<"s", "3", "_", "u", "r", "i">>

k_s3Path == <<"s", "3", "P", "a", "t", "h">>

k_file == <<"f", "i", "l", "e">>

k_excerpt == <<"e", "x", "c", "e", "r", "p", "t">>

k_documentTitle == <<"d", "o", "c", "u", "m", "e", "n", "t", "T", "i", "t", "l", "e">>

k_score == <<"s", "c", "o", "r", "e">>

k_relevanceScore == <<"r", "e", "l", "e", "v", "a", "n", "c", "e", "S", "c", "o", "r", "e">>

k_similarityScore == <<"s", "i", "m", "i", "l", "a", "r", "i", "t", "y", "S", "c", "o", "r", "e">>

k_retrievalResults ==
    <<"r", "e", "t", "r", "i", "e", "v", "a", "l", "R", "e", "s", "u", "l", "t", "s">>

k_items == <<"i", "t", "e", "m", "s">>

k_results == <<"r", "e", "s", "u", "l", "t", "s">>

k_matches == <<"m", "a", "t", "c", "h", "e", "s">>

k_raw == <<"r", "a", "w">>

NotIterableMsg ==
    <<"'", " ", "o", "b", "j", "e", "c", "t", " ", "i", "s", " ", "n", "o", "t", " ", "i", "t",
      "e", "r", "a", "b", "l", "e">>

ContentLimit == 4096

DefaultMaxResults == 5

\* the retrieve request: the knowledge base, the query text and the
\* vectorSearchConfiguration, whose filter is set only for a truthy filter_s3_uri
RetrieveRequest(kb_id, query, max_results, search_type, filter_s3_uri) ==
    [api |-> "retrieve", knowledgeBaseId |-> kb_id, text |-> query,
     numberOfResults |-> max_results, overrideSearchType |-> search_type,
     filter |-> IF Truthy(filter_s3_uri)
                THEN PyDict(<< <<k_s3_uri, filter_s3_uri>> >>)
                ELSE PyNone]

\* the candidates of a response
kb_candidates(response) ==
    Or(Or(Or(Or(Get(response, k_retrievalResults), Get(response, k_items)),
             Get(response, k_results)),
          Get(response, k_matches)),
       PyList(<< >>))

\* a loop body that looks nowhere and sets every field to "unknown"
kb_hit_unknown(item) ==
    PyDict(<< <<k_title, PyStr(Unknown)>>,
              <<kContent, PyStr(Unknown)>>,
              <<k_source, PyStr(Unknown)>>,
              <<k_score, PyStr(Unknown)>>,
              <<k_raw, item>> >>)

\* the hit the loop body appends for one item
kb_hit(item) ==
    LET doc == Or(Or(Or(Get(item, k_document), Get(item, k_sourceDocument)),
                     Get(item, k_source)),
                  item)
        in_doc == IsDict(item) /\ IsDict(doc)
        metadata == Or(Or(Get(doc, k_metadata), Get(item, k_metadata)), PyDict(<< >>))
        source ==
            IF in_doc /\ IsDict(metadata)
            THEN Or(Or(Or(Get(metadata, k_s3_uri), Get(metadata, k_s3Path)),
                       Get(metadata, k_source)),
                    Get(metadata, k_file))
            ELSE PyNone
        doc_content ==
            IF in_doc THEN Or(Or(Get(doc, kContent), Get(doc, kText)), Get(doc, kBody))
            ELSE PyNone
        doc_title == IF in_doc THEN Get(doc, k_title) ELSE PyNone
        content ==
            IF IsDict(item)
            THEN Or(Or(Or(doc_content, Get(item, kContent)), Get(item, kText)),
                    Get(item, k_excerpt))
            ELSE PyNone
        title ==
            IF IsDict(item)
            THEN Or(Or(doc_title, Get(item, k_title)), Get(item, k_documentTitle))
            ELSE PyNone
        score ==
            IF IsDict(item)
            THEN Or(Or(Get(item, k_score), Get(item, k_relevanceScore)),
                    Get(item, k_similarityScore))
            ELSE PyNone
    IN  PyDict(<< <<k_title, IF Truthy(title) THEN title ELSE Or(source, PyStr(Unknown))>>,
                  <<kContent, IF Truthy(content) THEN content
                              ELSE PyStr(Slice(json_dumps(item, 0, 0), ContentLimit))>>,
                  <<k_source, source>>,
                  <<k_score, score>>,
                  <<k_raw, item>> >>)

\* the items the for statement visits, or the TypeError it raises
kb_iterate(candidates) ==
    CASE candidates[1] = "list" -> Return(candidates[2])
      [] candidates[1] = "dict" ->
            Return([i \in 1..Len(candidates[2]) |-> PyStr(candidates[2][i][1])])
      [] candidates[1] = "str" ->
            Return([i \in 1..Len(candidates[2]) |-> PyStr(<<candidates[2][i]>>)])
      [] OTHER ->
            Raise(Exc("TypeError", <<"'">> \o TypeName(candidates) \o NotIterableMsg))

\* the for loop: one hit for each item visited
kb_results(visited) ==
    IF visited.st = "raise" THEN visited
    ELSE Return(PyList([i \in 1..Len(visited.val) |-> kb_hit(visited.val[i])]))

\* an except clause that swallows the exception and gives no results
query_knowledge_base_swallow(outcome) ==
    IF outcome.st = "raise" THEN Return(PyList(<< >>))
    ELSE kb_results(kb_iterate(kb_candidates(outcome.val)))

\* what query_knowledge_base does once retrieve has ended with outcome:
\* except Exception logs and re-raises the exception it caught
query_knowledge_base(outcome) ==
    IF outcome.st = "raise" THEN Raise(outcome.val)
    ELSE kb_results(kb_iterate(kb_candidates(outcome.val)))

---------------------------------------------------------------------------
\* The inputs and the outcomes the model draws from

\* the longest run of whitespace put before and after a padded text
MaxPad == 1

PadChars == {" ", "\n", "\f"}

RECURSIVE PadsOf(_)
\* the runs of exactly n pad characters
PadsOf(n) ==
    IF n = 0 THEN {<< >>}
    ELSE {<<c>> \o p : c \in PadChars, p \in PadsOf(n - 1)}

Pads == UNION {PadsOf(n) : n \in 0..MaxPad}

Padded(core) == {a \o core \o b : a \in Pads, b \in Pads}

tAns == <<"a", "n", "s">>

tAns2 == <<"a", "n", "s", "2">>

tHi == <<"h", "i">>

tE == <<"E">>

Obj(key, val) == PyDict(<< <<key, val>> >>)

Obj2(key1, val1, key2, val2) == PyDict(<< <<key1, val1>>, <<key2, val2>> >>)

One(item) == PyList(<<item>>)

\* {"choices":[{"message":{"content":"ans"}}]}
SpecChoicesPayload == Obj(kChoices, One(Obj(kMessage, Obj(kContent, PyStr(tAns)))))

\* {"outputs":[{"content":[{"text":"ans2"}]}]}
SpecOutputsPayload == Obj(kOutputs, One(Obj(kContent, One(Obj(kText, PyStr(tAns2))))))

\* reply payloads: the shapes the code probes, well formed and malformed
Payloads ==
    << SpecChoicesPayload,
       Obj(kChoices, One(Obj2(kMessage, Obj(kContent, PyStr(tAns)),
                              kText, PyStr(<<" ", "T", " ">>)))),
       Obj(kChoices, One(Obj2(kMessage, Obj(kContent, PyStr(tAns)), kText, PyInt(<<"5">>)))),
       Obj2(kOutputText, PyStr(<<" ", "h", "i", " ">>),
            kChoices, One(Obj(kMessage, Obj(kContent, PyStr(<<"o", "k">>))))),
       Obj2(kMessage, Obj(kContent, One(Obj(kText, PyStr(tE)))),
            kChoices, One(Obj(kMessage, Obj(kContent, PyStr(tAns))))),
       Obj(kChoices, One(Obj(kMessage, Obj2(kContent, PyStr(<<"A">>), kText, PyStr(tE))))),
       Obj(kChoices, One(PyStr(<<"x">>))),
       Obj(kChoices, One(Obj(kMessage, PyStr(tHi)))),
       Obj(kChoices, One(Obj(kMessage, PyNone))),
       Obj(kChoices, One(Obj(kMessage, Obj(kContent, One(Obj(kText, PyStr(<<" ", "D">>))))))),
       Obj(kChoices, One(Obj(kMessage, Obj(kContent, PyStr(<< >>))))),
       Obj(kChoices, One(Obj(kContent, One(PyStr(<<"e">>))))),
       Obj(kChoices, One(Obj(kText, PyStr(<<" ", "E", " ">>)))),
       Obj(kChoices, One(Obj(kText, PyInt(<<"5">>)))),
       Obj(kChoices, PyList(<< >>)),
       SpecOutputsPayload,
       Obj(kOutputs, One(PyInt(<<"1">>))),
       Obj(kOutputs, One(Obj(kContent, One(Obj(kText, PyInt(<<"5">>)))))),
       Obj(kOutputs, One(Obj(kContent, PyList(<<PyStr(<<"a">>), PyInt(<<"3">>)>>)))),
       Obj(kMessage, Obj(kContent, One(Obj(kText, PyStr(tE))))),
       Obj(kMessage, Obj(kContent, One(Obj(kText, PyInt(<<"5">>))))),
       Obj(kMessage, Obj(kContent, One(PyStr(<<"p", "l", "a", "i", "n">>)))),
       Obj(kOutputText, PyStr(<<"B", "\n">>)),
       Obj(kOutputText, PyStr(<< >>)),
       Obj(kGeneratedText, PyStr(<<"g", "e", "n">>)),
       Obj(kOutput, Obj(<<"a">>, PyInt(<<"1">>))),
       Obj(kText, PyStr(<<"t", "t">>)),
       PyDict(<< >>),
       One(PyInt(<<"1">>)),
       PyStr(tE),
       PyNone,
       PyInt(<<"7">>) >>

\* texts that are no JSON
PlainTexts ==
    { << >>,
      <<"A">>,
      <<"e">>,
      <<"C", "a", "t", "e", "g", "o", "r", "y", " ", "E">>,
      <<"C", "a", "t", "e", "g", "o", "r", "y", " ", "E", "l", "e", "c", "t", "r", "i", "c",
        "a", "l">>,
      <<"h", "e", "a", "v", "y", " ", "m", "a", "c", "h", "i", "n", "e", "r", "y">>,
      <<"n", "o", "n", "e">>,
      <<"a", " ", "q", "u", "e", "s", "t", "i", "o", "n", ":", " ", "E">>,
      <<"n", "o", "t", " ", "j", "s", "o", "n", " ", "{">> }

\* the texts a reply body may hold: each payload as json.dumps writes it, compact and
\* indented, the plain texts, and a plain text, a letter and a payload inside padding
BodyTexts ==
    {json_dumps(Payloads[i], 0, 0) : i \in 1..Len(Payloads)}
    \cup {json_dumps(SpecChoicesPayload, 2, 0)}
    \cup PlainTexts
    \cup Padded(tHi) \cup Padded(tE)
    \cup Padded(json_dumps(Obj(kOutputText, PyStr(tHi)), 0, 0))

\* what response["body"].read() may return: bytes, decodable or not, or a str
Bodies ==
    {Bytes(text) : text \in BodyTexts}
    \cup {UndecodableBytes, PyStr(tE), PyStr(json_dumps(SpecChoicesPayload, 0, 0))}

\* the exceptions a call of the service raises
ServiceErrors ==
    { Exc("ClientError", <<"A", "c", "c", "e", "s", "s", "D", "e", "n", "i", "e", "d">>),
      Exc("ReadTimeoutError", <<"t", "i", "m", "e", "d", " ", "o", "u", "t">>) }

\* the outcomes of invoke_model: an exception, a response without a body, a body
InvokeOutcomes ==
    {Raise(e) : e \in ServiceErrors}
    \cup {Return(PyDict(<< >>))}
    \cup {Return(Obj(kBody, b)) : b \in Bodies}

RatedPowerQuestion ==
    <<"W", "h", "a", "t", " ", "i", "s", " ", "t", "h", "e", " ", "r", "a", "t", "e", "d", " ",
      "p", "o", "w", "e", "r", " ", "o", "f", " ", "t", "h", "e", " ", "X", "R", "-", "2", "2",
      "0", "?">>

\* the prompts given to valid_prompt
UserInputs ==
    { RatedPowerQuestion,
      <<"h", "e", "l", "l", "o">>,
      <<"m", "a", "i", "l", " ", "b", "o", "b", "@", "x", ".", "i", "o">>,
      <<"m", "o", "t", "o", "r", " ", "f", "o", "r", " ", "a", "@", "b", ".", "c", "o">>,
      <<"c", "a", "l", "l", " ", "5", "5", "5", "-", "1", "2", "3", "-", "4", "5", "6", "7">>,
      <<"r", "p", "m", " ", "5", "5", "5", "1", "2", "3", "4", "5", "6", "7">>,
      <<"5", " ", "k", "W">>,
      <<"W", "h", "a", "t", " ", "s", "t", "o", "c", "k", " ", "s", "h", "o", "u", "l", "d", " ",
        "I", " ", "b", "u", "y", "?">> }
    \cup Padded(<< >>) \cup Padded(<<"r", "p", "m">>)

\* the prompts given to generate_response
UserPrompts == {RatedPowerQuestion, <<"h", "e", "l", "l", "o">>}

\* the queries and the filters given to query_knowledge_base
Queries == {RatedPowerQuestion, <<"r", "p", "m">>}

Filters ==
    { PyNone,
      PyStr(<<"s", "3", ":", "/", "/", "b", "u", "c", "k", "e", "t", "/", "m", "a", "c", "h", "i",
              "n", "e", "_", "f", "i", "l", "e", "s", ".", "p", "d", "f">>) }

SearchTypes == {"HYBRID", "SEMANTIC"}

tExcerpt ==
    <<"R", "a", "t", "e", "d", " ", "p", "o", "w", "e", "r", ":", " ", "5", " ", "k", "W">>

tUri == <<"s", "3", ":", "/", "/", "b", "/", "k", ".", "p", "d", "f">>

\* response items: the shapes kb_hit probes
KbItems ==
    << PyDict(<< <<kContent, Obj(kText, PyStr(tExcerpt))>>,
                 <<k_score, PyFloat(<<"0", ".", "7", "3">>)>>,
                 <<k_metadata, Obj(k_s3_uri, PyStr(tUri))>> >>),
       PyDict(<< <<k_document,
                   PyDict(<< <<kContent, PyStr(tExcerpt)>>,
                             <<k_title, PyStr(<<"X", "R">>)>>,
                             <<k_metadata, Obj(k_s3Path, PyStr(tUri))>> >>)>>,
                 <<k_relevanceScore, PyInt(<<"1">>)>> >>),
       PyDict(<< <<k_source, PyStr(tUri)>>, <<kText, PyStr(tExcerpt)>> >>),
       Obj(k_metadata, Obj(k_file, PyStr(<<"f", ".", "p", "d", "f">>))),
       Obj2(k_title, PyStr(<<"X", "R">>), k_excerpt, PyStr(tExcerpt)),
       PyDict(<< >>),
       PyStr(tExcerpt),
       PyNone >>

\* the responses of retrieve
KbResponses ==
    {Obj(k_retrievalResults, One(KbItems[i])) : i \in 1..Len(KbItems)}
    \cup {Obj(k_items, PyList(<<KbItems[i], KbItems[j]>>)) :
              i \in 1..Len(KbItems), j \in 1..Len(KbItems)}
    \cup { PyDict(<< >>),
           Obj(k_retrievalResults, PyList(<< >>)),
           Obj(k_results, One(KbItems[1])),
           Obj(k_matches, One(KbItems[2])),
           Obj(k_retrievalResults, PyList(KbItems)),
           Obj(k_retrievalResults, Obj(<<"a">>, PyInt(<<"1">>))),
           Obj(k_retrievalResults, PyInt(<<"5">>)) }

\* the outcomes of retrieve
RetrieveOutcomes ==
    {Raise(e) : e \in ServiceErrors} \cup {Return(r) : r \in KbResponses}

---------------------------------------------------------------------------
\* The calls.  A call of a function that uses the service takes two steps: it issues
\* its request and waits; the service's outcome then runs it to its end.

VARIABLES
    pc,         \* "idle", "waiting" for the service, or "returned"
    fn,         \* the function called
    arg,        \* its input
    requests,   \* the requests it has issued to the service
    outcome,    \* the outcome of its request
    result      \* how it ended: Return(value) or Raise(exception)

vars == <<pc, fn, arg, requests, outcome, result>>

\* no outcome, no result yet
Pending == [st |-> "pending", val |-> PyNone]

Init ==
    /\ pc = "idle"
    /\ fn = "none"
    /\ arg = PyNone
    /\ requests = << >>
    /\ outcome = Pending
    /\ result = Pending

\* valid_prompt(user_input) up to its return for an empty prompt or to invoke_model
CallValidPrompt(user_input) ==
    /\ pc = "idle"
    /\ fn' = "valid_prompt"
    /\ arg' = PyStr(user_input)
    /\ outcome' = Pending
    /\ IF is_empty_prompt(user_input)
       THEN /\ requests' = << >>
            /\ result' = valid_prompt(user_input, Pending)
            /\ pc' = "returned"
       ELSE /\ requests' = <<classifier_request(strip(user_input))>>
            /\ result' = Pending
            /\ pc' = "waiting"

\* invoke_model ends with o and valid_prompt runs to its return
ClassifierReplies(o) ==
    /\ pc = "waiting"
    /\ fn = "valid_prompt"
    /\ outcome' = o
    /\ result' = valid_prompt(arg[2], o)
    /\ pc' = "returned"
    /\ UNCHANGED <<fn, arg, requests>>

\* generate_response(system_prompt, user_prompt, model_id, max_tokens) up to invoke_model
CallGenerateResponse(user_prompt) ==
    /\ pc = "idle"
    /\ fn' = "generate_response"
    /\ arg' = PyStr(user_prompt)
    /\ outcome' = Pending
    /\ requests' = <<generate_request(user_prompt, MODEL_ID, DefaultMaxTokens)>>
    /\ result' = Pending
    /\ pc' = "waiting"

\* a generate_response that sends its request a second time when the first try fails
ModelRepliesWithRetry(o) ==
    /\ pc = "waiting"
    /\ fn = "generate_response"
    /\ outcome' = o
    /\ result' = generate_response(o)
    /\ requests' = IF generate_try(o).st = "raise" THEN requests \o requests ELSE requests
    /\ pc' = "returned"
    /\ UNCHANGED <<fn, arg>>

\* invoke_model ends with o and generate_response runs to its return
ModelReplies(o) ==
    /\ pc = "waiting"
    /\ fn = "generate_response"
    /\ outcome' = o
    /\ result' = generate_response(o)
    /\ pc' = "returned"
    /\ UNCHANGED <<fn, arg, requests>>

\* query_knowledge_base(kb_id, query, max_results, search_type, filter_s3_uri) up to retrieve
CallQueryKnowledgeBase(query, search_type, filter_s3_uri) ==
    /\ pc = "idle"
    /\ fn' = "query_knowledge_base"
    /\ arg' = PyStr(query)
    /\ outcome' = Pending
    /\ requests' =
           <<RetrieveRequest(KB_ID, query, DefaultMaxResults, search_type, filter_s3_uri)>>
    /\ result' = Pending
    /\ pc' = "waiting"

\* retrieve ends with o and query_knowledge_base runs to its end
RetrieveReplies(o) ==
    /\ pc = "waiting"
    /\ fn = "query_knowledge_base"
    /\ outcome' = o
    /\ result' = query_knowledge_base(o)
    /\ pc' = "returned"
    /\ UNCHANGED <<fn, arg, requests>>

\* _extract_text_from_bedrock_response(raw_response_body)
CallExtractText(raw_response_body) ==
    /\ pc = "idle"
    /\ fn' = "_extract_text_from_bedrock_response"
    /\ arg' = raw_response_body
    /\ outcome' = Pending
    /\ requests' = << >>
    /\ result' = _extract_text_from_bedrock_response(raw_response_body)
    /\ pc' = "returned"

\* _parse_bedrock_response(resp_text)
CallParseResponse(resp_text) ==
    /\ pc = "idle"
    /\ fn' = "_parse_bedrock_response"
    /\ arg' = PyStr(resp_text)
    /\ outcome' = Pending
    /\ requests' = << >>
    /\ result' = _parse_bedrock_response(resp_text)
    /\ pc' = "returned"

\* the caller takes the result; the next call starts from scratch
Finish ==
    /\ pc = "returned"
    /\ pc' = "idle"
    /\ fn' = "none"
    /\ arg' = PyNone
    /\ requests' = << >>
    /\ outcome' = Pending
    /\ result' = Pending

Next ==
    \/ \E user_input \in UserInputs : CallValidPrompt(user_input)
    \/ \E o \in InvokeOutcomes : ClassifierReplies(o)
    \/ \E user_prompt \in UserPrompts : CallGenerateResponse(user_prompt)
    \/ \E o \in InvokeOutcomes : ModelReplies(o)
    \/ \E query \in Queries, search_type \in SearchTypes, filter_s3_uri \in Filters :
           CallQueryKnowledgeBase(query, search_type, filter_s3_uri)
    \/ \E o \in RetrieveOutcomes : RetrieveReplies(o)
    \/ \E raw_response_body \in Bodies : CallExtractText(raw_response_body)
    \/ \E resp_text \in BodyTexts : CallParseResponse(resp_text)
    \/ Finish

Spec == Init /\ [][Next]_vars

---------------------------------------------------------------------------
\* Properties

\* the call of f has ended
Returned(f) == pc = "returned" /\ fn = f

\* the call ended by returning a (bool, str) pair
IsVerdict(r) ==
    /\ r.st = "return"
    /\ r.val[1] = "tuple"
    /\ Len(r.val[2]) = 2
    /\ r.val[2][1][1] = "bool"
    /\ r.val[2][2][1] = "str"

Admitted == IsVerdict(result) /\ result.val[2][1] = PyBool(TRUE)

Rejected == IsVerdict(result) /\ result.val[2][1] = PyBool(FALSE)

\* an address: word characters around an @, a dot later on
email_like(text) ==
    \E i \in 2..(Len(text) - 1) :
        /\ text[i] = "@"
        /\ text[i - 1] \in WordChars
        /\ text[i + 1] \in WordChars
        /\ \E j \in (i + 2)..(Len(text) - 1) : text[j] = "." /\ text[j + 1] \in WordChars

\* a phone number: seven places of digits and hyphens between two digits
phone_like(text) ==
    \E i \in 1..(Len(text) - 6) :
        /\ text[i] \in Digits
        /\ text[i + 6] \in Digits
        /\ \A j \in i..(i + 6) : text[j] \in Digits \cup {"-"}

HasContactInfo(text) == email_like(text) \/ phone_like(text)

\* the classifier gave no text: its call failed, or its text is empty
ClassifierSilent(o) == ~Truthy(classifier_call(o).val)

\* a text that names category E: its first standalone letter A-E is an E, or it has no
\* such letter and holds "category e" or "heavy machinery"
NamesCategoryE(text) ==
    LET m == search_letter(text)
    IN  IF m # 0 THEN text[m] \in {"E", "e"}
        ELSE \/ Contains(lower(text), PhraseCategoryE)
             \/ Contains(lower(text), PhraseHeavyMachinery)

\* the classifier gave a text, and it names category E
ClassifierSaysE(o) == ~ClassifierSilent(o) /\ NamesCategoryE(classifier_call(o).val[2])

\* the question holds one of the fallback keywords
HasKeyword(user_input) ==
    \E n \in 1..Len(fallback_keywords) :
        Contains(lower(strip(user_input)), fallback_keywords[n])

\* C1 (as the spec states it): an input with an email-like or phone-like substring
\* is rejected, whatever the classifier call does
C1_ContactInfoRejected ==
    (Returned("valid_prompt") /\ HasContactInfo(arg[2])) => Rejected

\* C1: valid_prompt has no contact-information rule.  An input with an email-like or
\* phone-like substring is admitted exactly when the classifier's text names
\* category E, or the classifier gave no text and the input holds a fallback keyword
C1_ContactInfoFollowsClassifier ==
    (Returned("valid_prompt") /\ HasContactInfo(arg[2]) /\ outcome # Pending)
        => /\ IsVerdict(result)
           /\ Admitted <=> \/ ClassifierSaysE(outcome)
                            \/ (ClassifierSilent(outcome) /\ HasKeyword(arg[2]))

\* an input with an email address, admitted because the classifier answered E
C1_ContactInfoAdmitted ==
    /\ Returned("valid_prompt")
    /\ email_like(arg[2])
    /\ ClassifierSaysE(outcome)
    /\ Admitted

\* C2: valid_prompt never raises: whatever the classifier call does, the call ends by
\* returning a (bool, str) verdict
C2_ValidPromptReturnsVerdict == Returned("valid_prompt") => IsVerdict(result)

\* the reply was malformed: reading or normalizing it raised inside the try statement,
\* and valid_prompt still returned its verdict
C2_VerdictAfterMalformedReply ==
    /\ Returned("valid_prompt")
    /\ outcome.st = "return"
    /\ classifier_try(outcome).st = "raise"
    /\ IsVerdict(result)

\* the text of the error generate_response returns for an exception
ErrorText(e) == PyStr(ErrorPrefix \o e[2][2])

\* C3 (as the spec states it): when the request of generate_response fails, a second
\* request is made before an error value is returned
C3_SecondAttemptAfterFailure ==
    (Returned("generate_response") /\ outcome.st = "raise") => Len(requests) = 2

\* C3: generate_response issues exactly one request per call, whether it fails or
\* not; when the request or the handling of its reply fails, the value returned is
\* the error text of that one failure
C3_SingleAttempt ==
    fn = "generate_response"
        => /\ Len(requests) = 1
           /\ (pc = "returned" /\ outcome.st = "raise")
                  => result = Return(ErrorText(outcome.val))
           /\ (pc = "returned" /\ generate_try(outcome).st = "raise")
                  => result = Return(ErrorText(generate_try(outcome).val))

\* the one request failed and the error text of that failure came back
C3_FailedOnceNoRetry ==
    /\ Returned("generate_response")
    /\ outcome.st = "raise"
    /\ Len(requests) = 1
    /\ result = Return(ErrorText(outcome.val))

\* C4: generate_response never raises and always returns a str
C4_GenerateReturnsStr ==
    Returned("generate_response") => (result.st = "return" /\ IsStr(result.val))

\* a reply whose handling raised inside the try statement (a choices entry that is no
\* dict, a text that is no str, no body), answered with an error text
C4_StrAfterMalformedReply ==
    /\ Returned("generate_response")
    /\ outcome.st = "return"
    /\ generate_try(outcome).st = "raise"
    /\ result.st = "return"
    /\ IsStr(result.val)

\* C5 (as the spec states it): the two normalizers never raise and return a str
C5_NormalizersReturnStr ==
    (Returned("_parse_bedrock_response") \/ Returned("_extract_text_from_bedrock_response"))
        => (result.st = "return" /\ IsStr(result.val))

\* the reply of invoke_model holds a body with a text in it
ReplyHasText ==
    /\ outcome.st = "return"
    /\ HasKey(outcome.val, kBody)
    /\ Item(outcome.val, kBody)[1] \in {"bytes", "str"}

\* one of the three normalizers has run on a text
NormalizerRan ==
    \/ Returned("_parse_bedrock_response")
    \/ Returned("_extract_text_from_bedrock_response")
    \/ (Returned("generate_response") /\ ReplyHasText)

\* the text it was given
NormalizerText ==
    IF fn = "_parse_bedrock_response" THEN arg[2]
    ELSE IF fn = "_extract_text_from_bedrock_response" THEN extract_raw_text(arg)
    ELSE Item(outcome.val, kBody)[2]

\* the text is JSON
TextIsJson == json_loads(NormalizerText).ok

\* the data it holds
NormalizerData == json_loads(NormalizerText).val

\* choices is a list, not empty, and its first choice has a message dict with a str
\* content that is not empty
HasMessageContent(data) ==
    /\ IsDict(data)
    /\ HasKey(data, kChoices)
    /\ IsList(Item(data, kChoices))
    /\ Len(Item(data, kChoices)[2]) > 0
    /\ LET first == Item(data, kChoices)[2][1]
       IN  /\ IsDict(first)
           /\ HasKey(first, kMessage)
           /\ IsDict(Item(first, kMessage))
           /\ HasKey(Item(first, kMessage), kContent)
           /\ IsStr(Item(Item(first, kMessage), kContent))
           /\ Item(Item(first, kMessage), kContent)[2] # << >>

MessageContent(data) == Item(Item(Item(data, kChoices)[2][1], kMessage), kContent)

\* json.dumps({"choices":[{"message":{"content":"ans"}}]}, indent=2)
SpecChoicesPretty ==
    <<"{", "\n", " ", " ", "\"", "c", "h", "o", "i", "c", "e", "s", "\"", ":", " ", "[", "\n",
      " ", " ", " ", " ", "{", "\n", " ", " ", " ", " ", " ", " ", "\"", "m", "e", "s", "s",
      "a", "g", "e", "\"", ":", " ", "{", "\n", " ", " ", " ", " ", " ", " ", " ", " ", "\"",
      "c", "o", "n", "t", "e", "n", "t", "\"", ":", " ", "\"", "a", "n", "s", "\"", "\n", " ",
      " ", " ", " ", " ", " ", "}", "\n", " ", " ", " ", " ", "}", "\n", " ", " ", "]", "\n",
      "}">>

\* C6 (as the spec states it): each of the three normalizers returns the str content
\* of the first choice's message
C6_AllReturnContent ==
    (NormalizerRan /\ TextIsJson /\ HasMessageContent(NormalizerData))
        => result = Return(MessageContent(NormalizerData))

\* C6: _parse_bedrock_response returns the str content of the first choice's message;
\* _extract_text_from_bedrock_response and the parsing in generate_response read no
\* str content: for {"choices":[{"message":{"content":"ans"}}]} they return the
\* indented JSON text of the whole payload
C6_OnlyParseReturnsContent ==
    (NormalizerRan /\ TextIsJson /\ HasMessageContent(NormalizerData))
        => /\ fn = "_parse_bedrock_response"
                  => result = Return(MessageContent(NormalizerData))
           /\ (fn # "_parse_bedrock_response" /\ NormalizerData = SpecChoicesPayload)
                  => result = Return(PyStr(SpecChoicesPretty))

\* _extract_text_from_bedrock_response on the spec's payload: the indented JSON text
C6_ExtractReturnsJsonText ==
    /\ Returned("_extract_text_from_bedrock_response")
    /\ TextIsJson
    /\ NormalizerData = SpecChoicesPayload
    /\ result = Return(PyStr(SpecChoicesPretty))

\* C7 (as the spec states it): a text that is no JSON comes back unchanged
C7_PlainTextUnchanged ==
    (NormalizerRan /\ ~TextIsJson) => result = Return(PyStr(NormalizerText))

\* C7: for a text that is no JSON, _parse_bedrock_response and generate_response
\* return it unchanged, and normalizing their output again gives it again;
\* _extract_text_from_bedrock_response returns it stripped of leading and trailing
\* whitespace, and normalizing that output again gives it again when the stripped
\* text is no JSON either
C7_PlainTextUnchangedOrStripped ==
    (NormalizerRan /\ ~TextIsJson)
        => /\ fn = "_parse_bedrock_response"
                  => /\ result = Return(PyStr(NormalizerText))
                     /\ _parse_bedrock_response(result.val[2]) = result
           /\ fn = "generate_response"
                  => /\ result = Return(PyStr(NormalizerText))
                     /\ generate_parse(result.val[2]) = result
           /\ fn = "_extract_text_from_bedrock_response"
                  => /\ result = Return(PyStr(strip(NormalizerText)))
                     /\ ~json_loads(strip(NormalizerText)).ok
                            => _extract_text_from_bedrock_response(result.val) = result

\* a text that is no JSON because of a form feed before it: strip() removes the form
\* feed, the output is JSON, and normalizing the output gives another text
C7_StrippedTextChangesAgain ==
    /\ Returned("_extract_text_from_bedrock_response")
    /\ ~TextIsJson
    /\ result = Return(PyStr(strip(NormalizerText)))
    /\ result.val[2] # NormalizerText
    /\ _extract_text_from_bedrock_response(result.val) # result

\* C8 (as the spec states it): the rated-power question is admitted on every path
C8_RatedPowerAlwaysAdmitted ==
    (Returned("valid_prompt") /\ arg = PyStr(RatedPowerQuestion)) => Admitted

\* C8: "What is the rated power of the XR-220?" is admitted when the classifier call
\* fails or gives an empty text (the heuristic finds "rated power"), and otherwise
\* exactly when the classifier's text names category E
C8_RatedPowerFollowsClassifier ==
    (Returned("valid_prompt") /\ arg = PyStr(RatedPowerQuestion))
        => /\ IsVerdict(result)
           /\ ClassifierSilent(outcome) => Admitted
           /\ ~ClassifierSilent(outcome) => (Admitted <=> ClassifierSaysE(outcome))

\* the classifier call failed and the heuristic admitted the rated-power question
C8_RatedPowerAdmittedByHeuristic ==
    /\ Returned("valid_prompt")
    /\ arg = PyStr(RatedPowerQuestion)
    /\ outcome.st = "raise"
    /\ result = Return(Verdict(TRUE, ReasonHeuristicOk))

\* nothing but whitespace
Blank(text) == \A i \in 1..Len(text) : text[i] \in PyWhitespace

\* the reply of invoke_model whose body is text
Reply(text) == Return(Obj(kBody, Bytes(text)))

\* C9 (as the spec states it): valid_prompt reaches its verdict without any request
C9_NoExternalCall == Returned("valid_prompt") => requests = << >>

\* C9: only for an empty or whitespace-only input does valid_prompt return its
\* verdict (a rejection) without a request; for every other input it issues exactly
\* one invoke_model request, for the stripped input, and returns its verdict after
\* the outcome of that request: admitted for the reply E, rejected for the reply A
C9_OneRequestUnlessBlank ==
    fn = "valid_prompt"
        => /\ Blank(arg[2])
                  => (pc = "returned" /\ requests = << >> /\ outcome = Pending /\ Rejected)
           /\ ~Blank(arg[2])
                  => /\ requests = <<classifier_request(strip(arg[2]))>>
                     /\ pc = "returned"
                            => /\ outcome # Pending
                               /\ outcome = Reply(<<"E">>) => Admitted
                               /\ outcome = Reply(<<"A">>) => Rejected

\* the rated-power question rejected after its request, on the reply A
C9_VerdictAfterRequest ==
    /\ Returned("valid_prompt")
    /\ arg = PyStr(RatedPowerQuestion)
    /\ Len(requests) = 1
    /\ outcome = Reply(<<"A">>)
    /\ Rejected

\* C10: query_knowledge_base issues the retrieve request exactly once per call; when
\* the request fails the call ends by raising the exception retrieve raised, with no
\* second request and no result list
C10_RetrieveOnceAndReraise ==
    fn = "query_knowledge_base"
        => /\ Len(requests) = 1
           /\ (pc = "returned" /\ outcome.st = "raise") => result = Raise(outcome.val)

\* retrieve failed and its exception left query_knowledge_base
C10_RetrieveFailed ==
    /\ Returned("query_knowledge_base")
    /\ outcome.st = "raise"
    /\ Len(requests) = 1
    /\ result.st = "raise"
    /\ result.val = outcome.val

\* query_knowledge_base has returned its list of hits
HitsReturned == Returned("query_knowledge_base") /\ result.st = "return"

\* the hits, in order
Hits == result.val[2]

\* the item holds none of the keys
NoKey(item, keys) == ~IsDict(item) \/ \A key \in keys : ~HasKey(item, key)

\* the keys under which an item may hold a nested document
DocKeys == {k_document, k_sourceDocument, k_source}

\* C11 (as the spec states it): no hit has None for its title, content, source or
\* score (a field not found is "unknown"), and there is one hit per candidate
C11_NoFieldIsNone ==
    HitsReturned
        => \A i \in 1..Len(Hits) :
               \A field \in {k_title, kContent, k_source, k_score} :
                   Item(Hits[i], field) # PyNone

\* C11: only title defaults to "unknown", and only when no source was found either;
\* a title not found is the source when there is one.  A content not found is the
\* JSON text of the item, cut at 4096 characters.  A source or a score not found is
\* None.  For a list of candidates the result has one hit per candidate, in the
\* candidates' order, each holding its candidate as raw
C11_DefaultsPerField ==
    HitsReturned
        => /\ \A i \in 1..Len(Hits) :
                  LET hit == Hits[i]
                      item == Item(hit, k_raw)
                  IN  /\ Truthy(Item(hit, k_title))
                      /\ Truthy(Item(hit, kContent))
                      /\ NoKey(item, {k_score, k_relevanceScore, k_similarityScore})
                             => Item(hit, k_score) = PyNone
                      /\ NoKey(item, DocKeys \cup {k_metadata})
                             => Item(hit, k_source) = PyNone
                      /\ NoKey(item, DocKeys \cup {k_title, k_documentTitle})
                             => Item(hit, k_title) =
                                    (IF Truthy(Item(hit, k_source)) THEN Item(hit, k_source)
                                     ELSE PyStr(Unknown))
                      /\ NoKey(item, DocKeys \cup {kContent, kText, kBody, k_excerpt})
                             => Item(hit, kContent) =
                                    PyStr(Slice(json_dumps(item, 0, 0), ContentLimit))
           /\ IsList(kb_candidates(outcome.val))
                  => /\ Len(Hits) = Len(kb_candidates(outcome.val)[2])
                     /\ \A i \in 1..Len(Hits) :
                            Item(Hits[i], k_raw) = kb_candidates(outcome.val)[2][i]

\* two candidates, two hits; one of the hits has no source and no score (both None)
\* and the title "unknown"
C11_HitWithNoneFields ==
    /\ HitsReturned
    /\ Len(Hits) = 2
    /\ \E i \in 1..Len(Hits) :
           /\ Item(Hits[i], k_source) = PyNone
           /\ Item(Hits[i], k_score) = PyNone
           /\ Item(Hits[i], k_title) = PyStr(Unknown)

\* classification failed, as the docstring of valid_prompt has it: the call raised,
\* or its output holds no standalone letter A-E
ClassificationFailed(o) ==
    \/ classifier_call(o).val = PyNone
    \/ (IsStr(classifier_call(o).val) /\ search_letter(classifier_call(o).val[2]) = 0)

\* the letter extracted from the classifier's output, in upper case
ExtractedLetter(o) ==
    upper_char(classifier_call(o).val[2][search_letter(classifier_call(o).val[2])])

\* C12 (as the docstring states it): the keyword heuristic over the question decides
\* the verdict exactly when classification fails (the call raised, or its output
\* holds no standalone letter A-E); otherwise the input is admitted exactly when the
\* extracted letter is E
C12_HeuristicExactlyOnFailure ==
    (Returned("valid_prompt") /\ outcome # Pending)
        => /\ ClassificationFailed(outcome)
                  => result = Return(heuristic_fallback(strip(arg[2])))
           /\ ~ClassificationFailed(outcome)
                  => /\ result # Return(heuristic_fallback(strip(arg[2])))
                     /\ Admitted <=> ExtractedLetter(outcome) = "E"

=============================================================================
